---- MODULE Spec2Model ----
(***************************************************************************)
(* Verification model of navs-svan/Beatport-Spotify:                       *)
(*   src/src/spotify_client.py  SpotifyClient (search_track,               *)
(*                              get_track_features, _refesh_token,         *)
(*                              create_playlist, add_track,                *)
(*                              get_recommendations)                       *)
(*   src/pipeline.py            spotify_pipeline, search_retrieve,         *)
(*                              insert_data                                *)
(* Each worker thread runs one client call against the shared client; the  *)
(* catalog (the Spotify Web API) and the token endpoint are the            *)
(* environment and answer every request nondeterministically.              *)
(***************************************************************************)
EXTENDS Integers, Sequences, FiniteSets, TLC

(***************************************************************************)
(* Bounds of the model.                                                    *)
(***************************************************************************)
MaxPages == 2        \* result pages the catalog serves for one query
MaxItems == 2        \* candidates on one result page
MaxTokens == 2       \* access tokens the token endpoint issues
MaxRetryAfter == 2   \* largest retry-after header value the catalog sends
MaxIds == 2          \* ids handed to one get_track_features call
MaxSeedSurplus == 1  \* ids beyond a sample handed to get_recommendations
MaxTitles == 2       \* titles of a small tracks table
MaxSurplus == 1      \* tracks beyond one chunk in a big tracks table
MaxRuns == 2         \* spotify_pipeline runs over one database
MaxFragments == 3    \* fragments a track title is put together from

(***************************************************************************)
(* Program constants.                                                      *)
(***************************************************************************)
MAX_RETRIES == 10        \* search_track / get_track_features retry ceiling
SEED_COUNT == 5          \* random.sample(track_id_list, 5)
num_retries == 5         \* _get_user_id: for _ in range(num_retries)
chunksize == 100         \* chunksize = 100
SELECT_LIMIT == 1000     \* LIMIT 1000
RATE_MULTIPLIER == 2     \* sleep = retry-after * 2
DEFAULT_RETRY_AFTER == 1 \* headers.get("retry-after", 1)
NETWORK_SLEEP == 5       \* time.sleep(5) after a network failure
SERVER_ERROR_SLEEP == 3  \* time.sleep(3) after a 500

Workers == {1, 2}

(***************************************************************************)
(* Strings.  A character is a letter with its case and diacritic, or one   *)
(* of the separators "," and " ".  A string is a sequence of characters.   *)
(***************************************************************************)
Ch(b, u, a) == [base |-> b, upper |-> u, accent |-> a]
Comma == Ch(",", FALSE, FALSE)
Space == Ch(" ", FALSE, FALSE)

\* str.lower(): every character loses its case, the diacritic stays.
Lower(s) == [i \in DOMAIN s |-> [s[i] EXCEPT !.upper = FALSE]]

\* unidecode(): every character loses its diacritic, the case stays.
Unidecode(s) == [i \in DOMAIN s |-> [s[i] EXCEPT !.accent = FALSE]]

\* The least index at which ", " starts in s, 0 when there is none.
FindSep(s) ==
    LET hits == {i \in 1..(Len(s) - 1) : s[i] = Comma /\ s[i + 1] = Space}
    IN  IF hits = {} THEN 0 ELSE CHOOSE i \in hits : \A j \in hits : i <= j

\* str.split(", ")
RECURSIVE Split(_)
Split(s) ==
    LET k == FindSep(s)
    IN  IF k = 0 THEN <<s>>
        ELSE <<SubSeq(s, 1, k - 1)>> \o Split(SubSeq(s, k + 2, Len(s)))

SeqToSet(q) == {q[i] : i \in DOMAIN q}

\* input_artist_set = set(song_details["artist"].lower().split(", "))
InputArtistSet(artist) == SeqToSet(Split(Lower(artist)))

\* result_artist_set: unidecode(artist["name"].lower()) of every listed artist
ResultArtistSet(artists) == {Unidecode(Lower(artists[i])) : i \in DOMAIN artists}

(***************************************************************************)
(* The inputs: the artist field of the queried track, and the candidates   *)
(* a result page can carry.  An item of a page is null (NullItem), or a    *)
(* track object whose "artists" is null (NullArtists) or a list of names.   *)
(***************************************************************************)
NameA == <<Ch("a", FALSE, FALSE)>>
NameAUpperAccent == <<Ch("a", TRUE, TRUE)>>
NameB == <<Ch("b", FALSE, FALSE)>>
NameC == <<Ch("c", FALSE, FALSE)>>

QueryArtists ==
    { NameA,
      <<Ch("a", TRUE, FALSE)>>,
      NameAUpperAccent \o <<Comma, Space>> \o NameB,
      NameC \o <<Comma, Space>> \o NameA }

NullItem == [kind |-> "null", artists |-> <<>>]
NullArtists == [kind |-> "null_artists", artists |-> <<>>]
Track(artists) == [kind |-> "track", artists |-> artists]

\* A candidate object without the key "artists".
NoArtistsKey == [kind |-> "no_artists_key", artists |-> <<>>]

Candidates ==
    { NullItem,
      NullArtists,
      Track(<<NameA>>),
      Track(<<NameB>>),
      Track(<<NameB, NameAUpperAccent>>) }

ItemLists == UNION {[1..n -> Candidates] : n \in 0..MaxItems}

\* A 200 body of the search endpoint: page `no` with its items and whether
\* tracks.next is a link (to page no + 1) or null.
Pages(no) ==
    {[kind |-> "page", no |-> no, items |-> it, next |-> nx] :
        it \in ItemLists, nx \in IF no < MaxPages THEN BOOLEAN ELSE {FALSE}}
    \cup {[kind |-> "page", no |-> no, items |-> <<NoArtistsKey>>, next |-> FALSE]}

\* The body of an error response: a JSON object without "tracks".
ErrorBody == [kind |-> "error"]

\* items[index]["id"]: ids are distinct across the catalog.
TrackId(no, index) == <<no, index>>

(***************************************************************************)
(* The artist check of search_track, lines 254-295, as the code runs it.   *)
(***************************************************************************)
\* len(input_artist_set.intersection(result_artist_set)) > 0
ArtistMatch(artist, item) ==
    (InputArtistSet(artist) \cap ResultArtistSet(item.artists)) # {}

\* The for loop over enumerate(items) from position i on: the position of the
\* first match; or the loop is left early by `return None` (a null item:
\* item["artists"] raises TypeError, which is caught) or by a TypeError that
\* nothing catches (iterating over "artists": null), or by a KeyError that
\* nothing catches (item["artists"] of an object without that key).
RECURSIVE ScanItems(_, _, _)
ScanItems(items, artist, i) ==
    IF i > Len(items) THEN [kind |-> "no_match", index |-> 0]
    ELSE IF items[i].kind = "null" THEN [kind |-> "return_none", index |-> i]
    ELSE IF items[i].kind = "null_artists" THEN [kind |-> "raise_TypeError", index |-> i]
    ELSE IF items[i].kind = "no_artists_key" THEN [kind |-> "raise_KeyError", index |-> i]
    ELSE IF ArtistMatch(artist, items[i]) THEN [kind |-> "match", index |-> i]
    ELSE ScanItems(items, artist, i + 1)

\* Variant of ExamineSong in which a page without items is treated like a
\* page without a match: its next link is followed.
ExamineSongFollowingEmpty(body, artist) ==
    IF body.kind # "page" THEN [kind |-> "return_none", id |-> <<0, 0>>]
    ELSE LET scan == ScanItems(body.items, artist, 1)
         IN  CASE scan.kind = "match" ->
                    [kind |-> "return_id", id |-> TrackId(body.no, scan.index)]
               [] scan.kind = "return_none" -> [kind |-> "return_none", id |-> <<0, 0>>]
               [] scan.kind = "raise_TypeError" ->
                    [kind |-> "raise_TypeError", id |-> <<0, 0>>]
               [] scan.kind = "raise_KeyError" ->
                    [kind |-> "raise_KeyError", id |-> <<0, 0>>]
               [] OTHER ->
                    IF body.next THEN [kind |-> "fetch_next", id |-> <<0, 0>>]
                    ELSE [kind |-> "return_none", id |-> <<0, 0>>]

\* One pass of the inner `while True` over the body held in `song`.
ExamineSong(body, artist) ==
    IF body.kind # "page" THEN [kind |-> "return_none", id |-> <<0, 0>>]
    ELSE IF Len(body.items) = 0 THEN [kind |-> "return_none", id |-> <<0, 0>>]
    ELSE LET scan == ScanItems(body.items, artist, 1)
         IN  CASE scan.kind = "match" ->
                    [kind |-> "return_id", id |-> TrackId(body.no, scan.index)]
               [] scan.kind = "return_none" -> [kind |-> "return_none", id |-> <<0, 0>>]
               [] scan.kind = "raise_TypeError" ->
                    [kind |-> "raise_TypeError", id |-> <<0, 0>>]
               [] scan.kind = "raise_KeyError" ->
                    [kind |-> "raise_KeyError", id |-> <<0, 0>>]
               [] OTHER ->
                    IF body.next THEN [kind |-> "fetch_next", id |-> <<0, 0>>]
                    ELSE [kind |-> "return_none", id |-> <<0, 0>>]

(***************************************************************************)
(* The title in the query of search_track.  A title is a sequence of       *)
(* characters, put together from a few fragments.                          *)
(***************************************************************************)
\* str.maketrans("", "", ":/?#[]@!$&'()*+,;="): the characters deleted.
remove_limiters ==
    {":", "/", "?", "#", "[", "]", "@", "!", "$", "&", "'", "(", ")", "*", "+",
     ",", ";", "="}

TitleFragments ==
    { <<"x">>, <<" ">>, <<"(">>, <<")">>, <<".">>, <<"d", "e">>,
      <<"f", "e", "a", "t">> }

RECURSIVE Join(_)
Join(parts) == IF parts = <<>> THEN <<>> ELSE Head(parts) \o Join(Tail(parts))

\* song_details["title"]: "x", "defeat", "x (feat. x)", "feat x", ...
TitleInputs ==
    {Join(parts) : parts \in UNION {[1..n -> TitleFragments] : n \in 0..MaxFragments}}

\* title.translate(remove_limiters)
Translate(title) == SelectSeq(title, LAMBDA c : c \notin remove_limiters)

\* The positions at which `word` stands in s.
Find(s, word) ==
    {i \in 1..(Len(s) - Len(word) + 1) : SubSeq(s, i, i + Len(word) - 1) = word}

\* title.translate(remove_limiters).split('feat')[0]
QueryTitle(title) ==
    LET clean == Translate(title)
        hits == Find(clean, <<"f", "e", "a", "t">>)
    IN  IF hits = {} THEN clean
        ELSE SubSeq(clean, 1, (CHOOSE i \in hits : \A j \in hits : i <= j) - 1)

(***************************************************************************)
(* State.                                                                  *)
(***************************************************************************)
VARIABLES
    access_token,      \* self.access_token of the shared SpotifyClient
    credentials_file,  \* the credentials.json record
    saving,            \* _save_credentials' access_token argument, per worker
    client,            \* self.client_id, self.client_secret, self.refresh_token
    issued,            \* catalog side: the newest access token issued
    valid,             \* catalog side: the access tokens it still accepts
    pc,                \* each worker's position in its call
    op,                \* the client method each worker runs
    song_details,      \* search_track's argument
    track_id_list,     \* get_track_features' argument
    retry_count,       \* the call's network-failure counter
    req,               \* the request the worker sent last
    resp,              \* its outcome: song / temp / features_response, or the exception
    song,              \* the body the inner loop of search_track examines
    token_request,     \* _refesh_token's token_request
    sleep_for,         \* seconds of the time.sleep the worker is in
    ret,               \* where the worker goes on after a sleep or a refresh
    result,            \* what the call returned, raised or yielded
    seed_track,        \* get_recommendations' seed_track, as sampled positions
    playlist_id,       \* main's playlist_id: what create_playlist returned
    query_string,      \* search_track's query_string: the text after "track:"
    rounds,            \* _get_user_id: the for loop's position, and how many
                       \* profile requests and _refesh_token calls it has made
    tracks_table,      \* the rows of the tracks table, in storage order
    found,             \* catalog side: how the search of each title ends
    features,          \* the rows of the features table
    relation,          \* the features table itself: absent, created, committed
    runs,              \* the spotify_pipeline runs started so far
    ppc,               \* where the main thread of spotify_pipeline is
    crash,             \* the exception that ended the run, "" when none
    tracks,            \* spotify_pipeline's tracks: the rows the SELECT gave
    task,              \* executor: the track each pool thread is searching
    next_task,         \* executor: the next track to hand to a pool thread
    results,           \* executor: the outcome of each search_retrieve
    overtaken,         \* a search has ended before one that started earlier
    search_requests,   \* spotify_pipeline's search_requests
    chunk_no,          \* the position of the chunk loop in id_chunks
    chunk,             \* the chunk, without its unresolved tracks
    no_id_list,        \* the unresolved tracks of the chunk
    chunk_id_list,     \* the track_id_list handed to get_track_features
    yielded,           \* what that get_track_features call yields
    pos,               \* the position of the insert loop the run is in
    attempts           \* the insert_data calls of the run, in order

clientVars == <<access_token, credentials_file, saving, client>>
catalogVars == <<issued, valid>>
dbVars == <<tracks_table, found, features>>
poolVars == <<task, next_task, results, overtaken>>
loopVars == <<chunk_no, chunk, no_id_list, chunk_id_list, yielded, pos>>
pipelineVars == <<dbVars, relation, runs, ppc, crash, tracks, poolVars,
                  search_requests, loopVars, attempts>>
argVars == <<op, song_details, track_id_list, seed_track, playlist_id, rounds,
            query_string, pipelineVars>>
vars == <<access_token, credentials_file, saving, client, issued, valid, pc, op, song_details,
          track_id_list, retry_count, req, resp, song, token_request,
          sleep_for, ret, result, seed_track, playlist_id, rounds, query_string,
          pipelineVars>>

NoRequest == [endpoint |-> "", page |-> 0, token |-> 0]
NoResponse == [exc |-> FALSE, status |-> 0, retry_after |-> {}, body |-> ErrorBody]
NoSong == [kind |-> "none"]
NoTokenRequest == [status |-> 0, access_token |-> 0]
Running == [kind |-> "running", id |-> <<0, 0>>, records |-> <<>>]
Returned(kind, id) == [kind |-> kind, id |-> id, records |-> <<>>]
Yielded(records) == [kind |-> "yielded", id |-> <<0, 0>>, records |-> records]

\* self._auth_header(): the bearer token is read when the request is built.
AuthHeader == access_token

\* Variant of RetryTime that trusts the hint as it is: no multiplier.
RetryTimeUnscaled(response) ==
    IF response.retry_after = {} THEN DEFAULT_RETRY_AFTER
    ELSE CHOOSE n \in response.retry_after : TRUE

\* int(headers.get("retry-after", 1)) * 2
RetryTime(response) ==
    (IF response.retry_after = {} THEN DEFAULT_RETRY_AFTER
     ELSE CHOOSE n \in response.retry_after : TRUE) * RATE_MULTIPLIER

\* The first pc of a call of method m.
Entry(m) ==
    CASE m = "search_track" -> "st_loop"
      [] m = "create_playlist" -> "cp_send"
      [] m = "add_track" -> "at_send"
      [] m = "get_recommendations" -> "gr_send"
      [] m = "_get_user_id" -> "ui_loop"
      [] OTHER -> "gf_loop"

IdLists == {[i \in 1..n |-> TrackId(1, i)] : n \in 1..MaxIds}

\* credentials.json as get_credentials finds it when the client is built.
StoredCredentials ==
    [sptfy_id |-> "id", sptfy_secret |-> "secret", access_token |-> 0,
     refresh_token |-> "refresh"]

\* Variant of SavedCredentials without the `is not None` test.
SavedCredentialsUnguarded(credentials, token, refresh_token) ==
    [credentials EXCEPT !.access_token = token,
                        !.refresh_token = refresh_token]

\* _save_credentials: the record read from the file, with access_token set
\* and refresh_token set only when one is given.
SavedCredentials(credentials, token, refresh_token) ==
    [credentials EXCEPT !.access_token = token,
                        !.refresh_token = IF refresh_token = "None" THEN @
                                          ELSE refresh_token]

\* The id lists get_recommendations is called with: one id short of a
\* sample, exactly a sample, and up to MaxSeedSurplus ids more.
SeedIdLists ==
    {[i \in 1..n |-> TrackId(1, i)] :
        n \in (SEED_COUNT - 1)..(SEED_COUNT + MaxSeedSurplus)}

InitCommon ==
    /\ access_token = 0
    /\ credentials_file = StoredCredentials
    /\ client = [client_id |-> StoredCredentials.sptfy_id,
                 client_secret |-> StoredCredentials.sptfy_secret,
                 refresh_token |-> StoredCredentials.refresh_token]
    /\ saving = [w \in Workers |-> 0]
    /\ issued = 0
    /\ valid \in {{}, {0}}
    /\ retry_count = [w \in Workers |-> 0]
    /\ req = [w \in Workers |-> NoRequest]
    /\ resp = [w \in Workers |-> NoResponse]
    /\ song = [w \in Workers |-> NoSong]
    /\ token_request = [w \in Workers |-> NoTokenRequest]
    /\ sleep_for = [w \in Workers |-> 0]
    /\ ret = [w \in Workers |-> ""]
    /\ result = [w \in Workers |-> Running]
    /\ seed_track = [w \in Workers |-> <<>>]
    /\ playlist_id = [w \in Workers |-> ""]
    /\ rounds = [i |-> 0, requests |-> 0, refreshes |-> 0]
    /\ query_string = [w \in Workers |-> <<>>]

\* No spotify_pipeline run is under way: the client calls are looked at on
\* their own.
PipelineOff ==
    /\ tracks_table = <<>>
    /\ found = <<>>
    /\ features = {}
    /\ relation = "absent"
    /\ runs = 0
    /\ ppc = "off"
    /\ crash = ""
    /\ tracks = <<>>
    /\ task = [w \in Workers |-> 0]
    /\ next_task = 1
    /\ results = <<>>
    /\ overtaken = FALSE
    /\ search_requests = <<>>
    /\ chunk_no = 0
    /\ chunk = <<>>
    /\ no_id_list = <<>>
    /\ chunk_id_list = <<>>
    /\ yielded = <<>>
    /\ pos = 0
    /\ attempts = <<>>

\* The arguments of a worker's call of method m.
Calls(m) ==
    CASE m = "search_track" ->
           {[op |-> m, artist |-> a, ids |-> <<>>] : a \in QueryArtists}
      [] m \in {"create_playlist", "_get_user_id"} ->
           {[op |-> m, artist |-> NameA, ids |-> <<>>]}
      [] m = "get_recommendations" ->
           {[op |-> m, artist |-> NameA, ids |-> ids] : ids \in SeedIdLists}
      [] OTHER -> {[op |-> m, artist |-> NameA, ids |-> ids] : ids \in IdLists}

NoCall == [op |-> "", artist |-> NameA, ids |-> <<>>]

\* The workers start the calls `call` gives them.
Start(call) ==
    /\ pc = [w \in Workers |-> IF call[w] = NoCall THEN "off" ELSE Entry(call[w].op)]
    /\ op = [w \in Workers |-> call[w].op]
    /\ song_details = [w \in Workers |-> [artist |-> call[w].artist]]
    /\ track_id_list = [w \in Workers |-> call[w].ids]

\* One thread runs one call: a search_track of any queried artist, or a
\* get_track_features of any id list.
Init ==
    /\ InitCommon
    /\ PipelineOff
    /\ \E c \in Calls("search_track") \cup Calls("get_track_features") :
          Start([w \in Workers |-> IF w = 1 THEN c ELSE NoCall])

(***************************************************************************)
(* The catalog and the token endpoint.                                     *)
(***************************************************************************)
Answer(status, retry_after, body) ==
    [exc |-> FALSE, status |-> status, retry_after |-> retry_after, body |-> body]

\* requests raises ConnectTimeout / ReadTimeout / ConnectionError.
NetworkFailure == [exc |-> TRUE, status |-> 0, retry_after |-> {}, body |-> ErrorBody]

RetryAfterHeaders == {{}} \cup {{n} : n \in 1..MaxRetryAfter}

\* create_playlist's 201 body, add_track's 201 body, and the bodies of
\* /recommendations: a list of tracks, possibly empty.
PlaylistBody == [kind |-> "playlist"]
ProfileBody == [kind |-> "profile"]
SnapshotBody == [kind |-> "snapshot"]
RecommendationBodies ==
    {[kind |-> "recommendations", tracks |-> t] :
        t \in {<<>>, <<TrackId(2, 1)>>, <<TrackId(2, 1), TrackId(2, 2)>>}}

\* An entry of audio_features: the audio features of track `id`, or null.
Features(id) == [kind |-> "features", of |-> id]
NullFeatures == [kind |-> "null", of |-> <<0, 0>>]

\* The bodies of /audio-features for `ids`: one entry per id, in the order
\* of the ids, null where the catalog has no features of the id.
FeatureBodies(ids) ==
    {[kind |-> "features",
      audio_features |-> [i \in 1..Len(ids) |->
                             IF i \in known THEN Features(ids[i]) ELSE NullFeatures]] :
        known \in SUBSET (1..Len(ids))}

\* The 200 bodies the catalog can give to worker w's request.
OkBodies(w) ==
    CASE req[w].endpoint = "search" -> Pages(1)
      [] req[w].endpoint = "next" -> Pages(req[w].page)
      [] req[w].endpoint = "playlists" -> {PlaylistBody}
      [] req[w].endpoint = "playlist-tracks" -> {SnapshotBody}
      [] req[w].endpoint = "recommendations" -> RecommendationBodies
      [] req[w].endpoint = "me" -> {ProfileBody}
      [] OTHER -> FeatureBodies(track_id_list[w])

\* The status the catalog gives a request it serves: 201 for the two
\* POSTs that create something, 200 for a GET.
OkStatus(w) ==
    IF req[w].endpoint \in {"playlists", "playlist-tracks"} THEN 201 ELSE 200

\* Every outcome worker w's request can have: a request carrying a token
\* the catalog no longer accepts gets 401, any other one 200, 429, 500 or
\* 404; and every request can fail in the network.
Outcomes(w) ==
    {NetworkFailure} \cup
    (IF req[w].token \notin valid THEN {Answer(401, {}, ErrorBody)}
     ELSE {Answer(OkStatus(w), {}, b) : b \in OkBodies(w)}
          \cup {Answer(429, h, ErrorBody) : h \in RetryAfterHeaders}
          \cup {Answer(500, {}, ErrorBody), Answer(404, {}, ErrorBody)})

WaitPc == {"st_wait", "np_wait", "gf_wait", "cp_wait", "at_wait", "gr_wait",
           "ui_wait"}
RecvPc(p) ==
    CASE p = "st_wait" -> "st_recv"
      [] p = "np_wait" -> "np_recv"
      [] p = "cp_wait" -> "cp_recv"
      [] p = "at_wait" -> "at_recv"
      [] p = "gr_wait" -> "gr_recv"
      [] p = "ui_wait" -> "ui_recv"
      [] OTHER -> "gf_recv"

\* The catalog answers the request of worker w (or the request fails).
CatalogRespond(w) ==
    /\ pc[w] \in WaitPc
    /\ \E r \in Outcomes(w) : resp' = [resp EXCEPT ![w] = r]
    /\ pc' = [pc EXCEPT ![w] = RecvPc(pc[w])]
    /\ UNCHANGED <<clientVars, catalogVars, argVars, retry_count, req, song,
                   token_request, sleep_for, ret, result>>

\* An access token expires.
ExpireToken ==
    /\ \E t \in valid : valid' = valid \ {t}
    /\ UNCHANGED <<clientVars, issued, pc, argVars, retry_count, req, resp, song,
                   token_request, sleep_for, ret, result>>

\* The token endpoint answers a refresh: 200 with a new access token, or a
\* rejection (400).
TokenRespond(w) ==
    /\ pc[w] = "rf_wait"
    /\ \/ /\ issued < MaxTokens
          /\ issued' = issued + 1
          /\ valid' = valid \cup {issued + 1}
          /\ token_request' = [token_request EXCEPT
                                 ![w] = [status |-> 200, access_token |-> issued + 1]]
       \/ /\ token_request' = [token_request EXCEPT
                                 ![w] = [status |-> 400, access_token |-> 0]]
          /\ UNCHANGED catalogVars
    /\ pc' = [pc EXCEPT ![w] = "rf_recv"]
    /\ UNCHANGED <<clientVars, argVars, retry_count, req, resp, song, sleep_for,
                   ret, result>>

(***************************************************************************)
(* Steps shared by the retry loops.                                        *)
(***************************************************************************)
\* time.sleep(seconds), after which the worker goes on at `back`.
Sleep(w, seconds, back) ==
    /\ pc' = [pc EXCEPT ![w] = "sleep"]
    /\ sleep_for' = [sleep_for EXCEPT ![w] = seconds]
    /\ ret' = [ret EXCEPT ![w] = back]

\* self._refesh_token(), after which the worker goes on at `back`.
CallRefresh(w, back) ==
    /\ pc' = [pc EXCEPT ![w] = "rf_send"]
    /\ ret' = [ret EXCEPT ![w] = back]
    /\ token_request' = [token_request EXCEPT ![w] = NoTokenRequest]

\* The call ends: it returns, raises, or its generator is exhausted.
Finish(w, outcome) ==
    /\ pc' = [pc EXCEPT ![w] = "done"]
    /\ result' = [result EXCEPT ![w] = outcome]

\* Variant of SendRequest that builds the header once, before the retry loop:
\* a retry carries the token of the request before it.
SendRequestCachedHeader(w, endpoint, page, wait) ==
    /\ req' = [req EXCEPT ![w] = [endpoint |-> endpoint, page |-> page,
                                  token |-> IF req[w].endpoint = ""
                                            THEN access_token ELSE req[w].token]]
    /\ pc' = [pc EXCEPT ![w] = wait]

\* requests.get(...) of `endpoint`, with the header built from the token the
\* client holds now.
SendRequest(w, endpoint, page, wait) ==
    /\ req' = [req EXCEPT ![w] = [endpoint |-> endpoint, page |-> page,
                                  token |-> AuthHeader]]
    /\ pc' = [pc EXCEPT ![w] = wait]

\* The sleep ends.
Wake(w) ==
    /\ pc[w] = "sleep"
    /\ pc' = [pc EXCEPT ![w] = ret[w]]
    /\ sleep_for' = [sleep_for EXCEPT ![w] = 0]
    /\ UNCHANGED <<clientVars, catalogVars, argVars, retry_count, req, resp, song,
                   token_request, ret, result>>

(***************************************************************************)
(* SpotifyClient._refesh_token                                             *)
(***************************************************************************)
\* requests.post(url, headers, data) to the token endpoint.
RefreshSend(w) ==
    /\ pc[w] = "rf_send"
    /\ pc' = [pc EXCEPT ![w] = "rf_wait"]
    /\ UNCHANGED <<clientVars, catalogVars, argVars, retry_count, req, resp, song,
                   token_request, sleep_for, ret, result>>

\* status 200: self.access_token = token_request.json()["access_token"]
RefreshOk(w) ==
    /\ pc[w] = "rf_recv"
    /\ token_request[w].status = 200
    /\ access_token' = token_request[w].access_token
    /\ pc' = [pc EXCEPT ![w] = "rf_save"]
    /\ UNCHANGED <<credentials_file, saving, client, catalogVars, argVars, retry_count, req, resp,
                   song, token_request, sleep_for, ret, result>>

\* any other status: _refesh_token returns without a word.
RefreshRejected(w) ==
    /\ pc[w] = "rf_recv"
    /\ token_request[w].status # 200
    /\ pc' = [pc EXCEPT ![w] = ret[w]]
    /\ UNCHANGED <<clientVars, catalogVars, argVars, retry_count, req, resp, song,
                   token_request, sleep_for, ret, result>>

\* SpotifyClient._save_credentials(self.access_token, None, file): the
\* argument is evaluated at the call, it is the token of that moment.
CallSaveCredentials(w) ==
    /\ pc[w] = "rf_save"
    /\ saving' = [saving EXCEPT ![w] = access_token]
    /\ pc' = [pc EXCEPT ![w] = "rf_write"]
    /\ UNCHANGED <<access_token, credentials_file, client, catalogVars, argVars,
                   retry_count, req, resp, song, token_request, sleep_for, ret,
                   result>>

\* _save_credentials: credentials["access_token"] = access_token, the file is
\* written, and _refesh_token returns.
SaveCredentials(w) ==
    /\ pc[w] = "rf_write"
    /\ credentials_file' = SavedCredentials(credentials_file, saving[w], "None")
    /\ saving' = [saving EXCEPT ![w] = 0]
    /\ pc' = [pc EXCEPT ![w] = ret[w]]
    /\ UNCHANGED <<access_token, client, catalogVars, argVars, retry_count, req, resp, song,
                   token_request, sleep_for, ret, result>>

(***************************************************************************)
(* SpotifyClient.search_track                                              *)
(***************************************************************************)
\* query_string = f"track:{title.translate(...).split('feat')[0]} year:..."
BuildQuery(w) ==
    /\ pc[w] = "st_query"
    /\ query_string' = [query_string EXCEPT ![w] = QueryTitle(song_details[w].title)]
    /\ pc' = [pc EXCEPT ![w] = Entry("search_track")]
    /\ UNCHANGED <<clientVars, catalogVars, op, song_details, track_id_list,
                   seed_track, playlist_id, rounds, pipelineVars, retry_count,
                   req, resp, song, token_request, sleep_for, ret, result>>

\* while retry_count < MAX_RETRIES: song = requests.get(endpoint, ...)
SearchSend(w) ==
    /\ pc[w] = "st_loop"
    /\ retry_count[w] < MAX_RETRIES
    /\ SendRequest(w, "search", 1, "st_wait")
    /\ UNCHANGED <<clientVars, catalogVars, argVars, retry_count, resp, song,
                   token_request, sleep_for, ret, result>>

\* The while loop ends with retry_count = MAX_RETRIES: the function falls
\* off its end, which returns None.
SearchExhausted(w) ==
    /\ pc[w] = "st_loop"
    /\ ~(retry_count[w] < MAX_RETRIES)
    /\ Finish(w, Returned("None", <<0, 0>>))
    /\ UNCHANGED <<clientVars, catalogVars, argVars, retry_count, req, resp, song,
                   token_request, sleep_for, ret>>

\* song.status_code == 200: enter the inner loop with this body.
SearchOk(w) ==
    /\ pc[w] = "st_recv"
    /\ ~resp[w].exc /\ resp[w].status = 200
    /\ song' = [song EXCEPT ![w] = resp[w].body]
    /\ pc' = [pc EXCEPT ![w] = "st_page"]
    /\ UNCHANGED <<clientVars, catalogVars, argVars, retry_count, req, resp,
                   token_request, sleep_for, ret, result>>

\* 429: raise SpotifyRateException; its handler sleeps retry-after * 2 and
\* the while loop goes round.
SearchRateLimited(w) ==
    /\ pc[w] = "st_recv"
    /\ ~resp[w].exc /\ resp[w].status = 429
    /\ Sleep(w, RetryTime(resp[w]), "st_loop")
    /\ UNCHANGED <<clientVars, catalogVars, argVars, retry_count, req, resp, song,
                   token_request, result>>

\* 401: raise SpotifyTokenException; its handler refreshes the token and
\* continues.
SearchTokenExpired(w) ==
    /\ pc[w] = "st_recv"
    /\ ~resp[w].exc /\ resp[w].status = 401
    /\ CallRefresh(w, "st_loop")
    /\ UNCHANGED <<clientVars, catalogVars, argVars, retry_count, req, resp, song,
                   sleep_for, result>>

\* Variant of SearchServerError that counts the 500 against the ceiling.
SearchServerErrorCounted(w) ==
    /\ pc[w] = "st_recv"
    /\ ~resp[w].exc /\ resp[w].status = 500
    /\ retry_count' = [retry_count EXCEPT ![w] = @ + 1]
    /\ Sleep(w, SERVER_ERROR_SLEEP, "st_loop")
    /\ UNCHANGED <<clientVars, catalogVars, argVars, req, resp, song,
                   token_request, result>>

\* 500: time.sleep(3); continue
SearchServerError(w) ==
    /\ pc[w] = "st_recv"
    /\ ~resp[w].exc /\ resp[w].status = 500
    /\ Sleep(w, SERVER_ERROR_SLEEP, "st_loop")
    /\ UNCHANGED <<clientVars, catalogVars, argVars, retry_count, req, resp, song,
                   token_request, result>>

\* Variant of SearchOtherStatus that treats every unknown status as transient.
SearchOtherStatusRetried(w) ==
    /\ pc[w] = "st_recv"
    /\ ~resp[w].exc /\ resp[w].status \notin {200, 429, 401, 500}
    /\ Sleep(w, SERVER_ERROR_SLEEP, "st_loop")
    /\ UNCHANGED <<clientVars, catalogVars, argVars, retry_count, req, resp, song,
                   token_request, result>>

\* any other status: raise SystemExit("An error occurred")
SearchOtherStatus(w) ==
    /\ pc[w] = "st_recv"
    /\ ~resp[w].exc /\ resp[w].status \notin {200, 429, 401, 500}
    /\ Finish(w, Returned("SystemExit", <<0, 0>>))
    /\ UNCHANGED <<clientVars, catalogVars, argVars, retry_count, req, resp, song,
                   token_request, sleep_for, ret>>

\* ConnectTimeout / ReadTimeout / ConnectionError: retry_count += 1;
\* time.sleep(5); continue
SearchNetworkFailure(w) ==
    /\ pc[w] = "st_recv"
    /\ resp[w].exc
    /\ retry_count' = [retry_count EXCEPT ![w] = @ + 1]
    /\ Sleep(w, NETWORK_SLEEP, "st_loop")
    /\ UNCHANGED <<clientVars, catalogVars, argVars, req, resp, song,
                   token_request, result>>

\* One pass of the inner loop over `song`: return the matching id, return
\* None, raise, or go on to fetch tracks.next.
ExaminePage(w) ==
    /\ pc[w] = "st_page"
    /\ LET out == ExamineSong(song[w], song_details[w].artist)
       IN  CASE out.kind = "return_id" ->
                  Finish(w, Returned("id", out.id))
             [] out.kind = "return_none" ->
                  Finish(w, Returned("None", <<0, 0>>))
             [] out.kind = "raise_TypeError" ->
                  Finish(w, Returned("TypeError", <<0, 0>>))
             [] out.kind = "raise_KeyError" ->
                  Finish(w, Returned("KeyError", <<0, 0>>))
             [] OTHER ->
                  /\ pc' = [pc EXCEPT ![w] = "np_send"]
                  /\ UNCHANGED result
    /\ UNCHANGED <<clientVars, catalogVars, argVars, retry_count, req, resp, song,
                   token_request, sleep_for, ret>>

\* Variant of NextPageSend that asks for the page after the linked one.
NextPageSendSkipping(w) ==
    /\ pc[w] = "np_send"
    /\ SendRequest(w, "next", song[w].no + 2, "np_wait")
    /\ UNCHANGED <<clientVars, catalogVars, argVars, retry_count, resp, song,
                   token_request, sleep_for, ret, result>>

\* temp = requests.get(next_endpoint, headers=self._auth_header())
NextPageSend(w) ==
    /\ pc[w] = "np_send"
    /\ SendRequest(w, "next", song[w].no + 1, "np_wait")
    /\ UNCHANGED <<clientVars, catalogVars, argVars, retry_count, resp, song,
                   token_request, sleep_for, ret, result>>

\* temp.status_code == 429: sleep retry-after * 2; `finally: continue`
\* restarts the inner loop on the same song.
NextPageRateLimited(w) ==
    /\ pc[w] = "np_recv"
    /\ ~resp[w].exc /\ resp[w].status = 429
    /\ Sleep(w, RetryTime(resp[w]), "st_page")
    /\ UNCHANGED <<clientVars, catalogVars, argVars, retry_count, req, resp, song,
                   token_request, result>>

\* temp.status_code == 401: refresh the token; continue
NextPageTokenExpired(w) ==
    /\ pc[w] = "np_recv"
    /\ ~resp[w].exc /\ resp[w].status = 401
    /\ CallRefresh(w, "st_page")
    /\ UNCHANGED <<clientVars, catalogVars, argVars, retry_count, req, resp, song,
                   sleep_for, result>>

\* any other status, 200 or not: `else: song = temp`, and the inner loop
\* goes round on temp's body.
NextPageTaken(w) ==
    /\ pc[w] = "np_recv"
    /\ ~resp[w].exc /\ resp[w].status \notin {429, 401}
    /\ song' = [song EXCEPT ![w] = resp[w].body]
    /\ pc' = [pc EXCEPT ![w] = "st_page"]
    /\ UNCHANGED <<clientVars, catalogVars, argVars, retry_count, req, resp,
                   token_request, sleep_for, ret, result>>

\* requests.get raises: no except clause of the inner try matches, and
\* `finally: continue` discards the exception; the inner loop goes round on
\* the same song, retry_count untouched.
NextPageNetworkFailure(w) ==
    /\ pc[w] = "np_recv"
    /\ resp[w].exc
    /\ pc' = [pc EXCEPT ![w] = "st_page"]
    /\ UNCHANGED <<clientVars, catalogVars, argVars, retry_count, req, resp, song,
                   token_request, sleep_for, ret, result>>

(***************************************************************************)
(* SpotifyClient.get_track_features                                        *)
(***************************************************************************)
\* What the generator yields for one 200 body: the features of each entry of
\* audio_features, {} for a null entry.
FeaturesDict(feature) == [kind |-> "features_dict", of |-> feature.of]
EmptyDict == [kind |-> "{}", of |-> <<0, 0>>]

\* Variant of FeatureRecords that yields nothing for a null entry.
FeatureRecordsSkippingNull(body) ==
    LET has == SelectSeq(body.audio_features, LAMBDA f : f.kind # "null")
    IN  [i \in DOMAIN has |-> FeaturesDict(has[i])]

FeatureRecords(body) ==
    [i \in DOMAIN body.audio_features |->
        IF body.audio_features[i].kind # "null"
        THEN FeaturesDict(body.audio_features[i]) ELSE EmptyDict]

\* while retry_count < MAX_RETRIES: features_response = requests.get(...)
FeaturesSend(w) ==
    /\ pc[w] = "gf_loop"
    /\ retry_count[w] < MAX_RETRIES
    /\ SendRequest(w, "audio-features", 0, "gf_wait")
    /\ UNCHANGED <<clientVars, catalogVars, argVars, retry_count, resp, song,
                   token_request, sleep_for, ret, result>>

\* The while loop ends with retry_count = MAX_RETRIES: the generator ends
\* and has yielded nothing.
FeaturesExhausted(w) ==
    /\ pc[w] = "gf_loop"
    /\ ~(retry_count[w] < MAX_RETRIES)
    /\ Finish(w, Yielded(<<>>))
    /\ UNCHANGED <<clientVars, catalogVars, argVars, retry_count, req, resp, song,
                   token_request, sleep_for, ret>>

\* 200: yield a record per entry of audio_features; break
FeaturesOk(w) ==
    /\ pc[w] = "gf_recv"
    /\ ~resp[w].exc /\ resp[w].status = 200
    /\ Finish(w, Yielded(FeatureRecords(resp[w].body)))
    /\ UNCHANGED <<clientVars, catalogVars, argVars, retry_count, req, resp, song,
                   token_request, sleep_for, ret>>

\* 429: raise SpotifyRateException; its handler sleeps retry-after * 2
FeaturesRateLimited(w) ==
    /\ pc[w] = "gf_recv"
    /\ ~resp[w].exc /\ resp[w].status = 429
    /\ Sleep(w, RetryTime(resp[w]), "gf_loop")
    /\ UNCHANGED <<clientVars, catalogVars, argVars, retry_count, req, resp, song,
                   token_request, result>>

\* 401: raise SpotifyTokenException; its handler refreshes the token
FeaturesTokenExpired(w) ==
    /\ pc[w] = "gf_recv"
    /\ ~resp[w].exc /\ resp[w].status = 401
    /\ CallRefresh(w, "gf_loop")
    /\ UNCHANGED <<clientVars, catalogVars, argVars, retry_count, req, resp, song,
                   sleep_for, result>>

\* any other status: raise SystemExit("Error in getting track features")
FeaturesOtherStatus(w) ==
    /\ pc[w] = "gf_recv"
    /\ ~resp[w].exc /\ resp[w].status \notin {200, 429, 401}
    /\ Finish(w, Returned("SystemExit", <<0, 0>>))
    /\ UNCHANGED <<clientVars, catalogVars, argVars, retry_count, req, resp, song,
                   token_request, sleep_for, ret>>

\* ConnectTimeout / ReadTimeout / ConnectionError: retry_count += 1;
\* time.sleep(5); continue
FeaturesNetworkFailure(w) ==
    /\ pc[w] = "gf_recv"
    /\ resp[w].exc
    /\ retry_count' = [retry_count EXCEPT ![w] = @ + 1]
    /\ Sleep(w, NETWORK_SLEEP, "gf_loop")
    /\ UNCHANGED <<clientVars, catalogVars, argVars, req, resp, song,
                   token_request, result>>

(***************************************************************************)
(* SpotifyClient.create_playlist, add_track, get_recommendations: one      *)
(* request each, no loop around it.                                        *)
(***************************************************************************)
ReturnedList(ids) == [kind |-> "list", id |-> <<0, 0>>, records |-> ids]

\* Variant of Samples that draws every seed independently: a position can
\* be drawn twice.
SamplesWithReplacement(ids) == [1..SEED_COUNT -> DOMAIN ids]

\* random.sample(track_id_list, 5): SEED_COUNT positions of the list, no
\* position twice.
Samples(ids) ==
    {s \in [1..SEED_COUNT -> DOMAIN ids] :
        \A i, j \in 1..SEED_COUNT : i # j => s[i] # s[j]}

\* The ids a sample of positions stands for: what ",".join(seed_track) sends.
SeedIds(ids, s) == [i \in DOMAIN s |-> ids[s[i]]]

\* requests.post(endpoint, headers=header, json=body)
CreatePlaylistSend(w) ==
    /\ pc[w] = "cp_send"
    /\ SendRequest(w, "playlists", 0, "cp_wait")
    /\ UNCHANGED <<clientVars, catalogVars, argVars, retry_count, resp, song,
                   token_request, sleep_for, ret, result>>

\* 201: return playlist.json()["id"]
CreatePlaylistOk(w) ==
    /\ pc[w] = "cp_recv"
    /\ ~resp[w].exc /\ resp[w].status = 201
    /\ Finish(w, Returned("playlist_id", <<0, 0>>))
    /\ UNCHANGED <<clientVars, catalogVars, argVars, retry_count, req, resp, song,
                   token_request, sleep_for, ret>>

\* 429: two prints and a TODO; the method falls off its end and returns None.
CreatePlaylistRateLimited(w) ==
    /\ pc[w] = "cp_recv"
    /\ ~resp[w].exc /\ resp[w].status = 429
    /\ Finish(w, Returned("None", <<0, 0>>))
    /\ UNCHANGED <<clientVars, catalogVars, argVars, retry_count, req, resp, song,
                   token_request, sleep_for, ret>>

\* Any other status, 401 among them: raise SystemExit.
CreatePlaylistOtherStatus(w) ==
    /\ pc[w] = "cp_recv"
    /\ ~resp[w].exc /\ resp[w].status \notin {201, 429}
    /\ Finish(w, Returned("SystemExit", <<0, 0>>))
    /\ UNCHANGED <<clientVars, catalogVars, argVars, retry_count, req, resp, song,
                   token_request, sleep_for, ret>>

\* requests.post(endpoint, headers=header, json=body)
AddTrackSend(w) ==
    /\ pc[w] = "at_send"
    /\ SendRequest(w, "playlist-tracks", 0, "at_wait")
    /\ UNCHANGED <<clientVars, catalogVars, argVars, retry_count, resp, song,
                   token_request, sleep_for, ret, result>>

\* 201: a print; the method returns None.
AddTrackOk(w) ==
    /\ pc[w] = "at_recv"
    /\ ~resp[w].exc /\ resp[w].status = 201
    /\ Finish(w, Returned("added", <<0, 0>>))
    /\ UNCHANGED <<clientVars, catalogVars, argVars, retry_count, req, resp, song,
                   token_request, sleep_for, ret>>

\* 429: two prints and a TODO; the method returns with nothing added.
AddTrackRateLimited(w) ==
    /\ pc[w] = "at_recv"
    /\ ~resp[w].exc /\ resp[w].status = 429
    /\ Finish(w, Returned("None", <<0, 0>>))
    /\ UNCHANGED <<clientVars, catalogVars, argVars, retry_count, req, resp, song,
                   token_request, sleep_for, ret>>

\* Any other status, 401 among them: raise SystemExit.
AddTrackOtherStatus(w) ==
    /\ pc[w] = "at_recv"
    /\ ~resp[w].exc /\ resp[w].status \notin {201, 429}
    /\ Finish(w, Returned("SystemExit", <<0, 0>>))
    /\ UNCHANGED <<clientVars, catalogVars, argVars, retry_count, req, resp, song,
                   token_request, sleep_for, ret>>

\* main: playlist_id = app.create_playlist(title, ...) has returned, an id or
\* None; app.add_track(playlist_id=playlist_id, track_id_list=track_id_list)
\* with the ids the searches found, possibly none.
MainAddTrack(w) ==
    /\ pc[w] = "done"
    /\ op[w] = "create_playlist"
    /\ result[w].kind \in {"playlist_id", "None"}
    /\ playlist_id' = [playlist_id EXCEPT ![w] = result[w].kind]
    /\ \E ids \in IdLists \cup {<<>>} :
          track_id_list' = [track_id_list EXCEPT ![w] = ids]
    /\ op' = [op EXCEPT ![w] = "add_track"]
    /\ pc' = [pc EXCEPT ![w] = Entry("add_track")]
    /\ result' = [result EXCEPT ![w] = Running]
    /\ UNCHANGED <<clientVars, catalogVars, song_details, seed_track, rounds,
                   query_string, pipelineVars, retry_count, req, resp, song, token_request,
                   sleep_for, ret>>

\* seed_track = random.sample(track_id_list, 5); requests.get(endpoint, ...)
RecommendationsSend(w) ==
    /\ pc[w] = "gr_send"
    /\ Len(track_id_list[w]) >= SEED_COUNT
    /\ \E s \in Samples(track_id_list[w]) :
          seed_track' = [seed_track EXCEPT ![w] = s]
    /\ SendRequest(w, "recommendations", 0, "gr_wait")
    /\ UNCHANGED <<clientVars, catalogVars, op, song_details, track_id_list,
                   playlist_id, rounds, query_string, pipelineVars, retry_count, resp, song,
                   token_request, sleep_for, ret, result>>

\* random.sample raises ValueError: the sample is larger than the list.
RecommendationsTooFew(w) ==
    /\ pc[w] = "gr_send"
    /\ Len(track_id_list[w]) < SEED_COUNT
    /\ Finish(w, Returned("ValueError", <<0, 0>>))
    /\ UNCHANGED <<clientVars, catalogVars, argVars, retry_count, req, resp, song,
                   token_request, sleep_for, ret>>

\* 200: return the id of every track of the body.
RecommendationsOk(w) ==
    /\ pc[w] = "gr_recv"
    /\ ~resp[w].exc /\ resp[w].status = 200
    /\ Finish(w, ReturnedList(resp[w].body.tracks))
    /\ UNCHANGED <<clientVars, catalogVars, argVars, retry_count, req, resp, song,
                   token_request, sleep_for, ret>>

\* 429: two prints and a TODO; the method returns None.
RecommendationsRateLimited(w) ==
    /\ pc[w] = "gr_recv"
    /\ ~resp[w].exc /\ resp[w].status = 429
    /\ Finish(w, Returned("None", <<0, 0>>))
    /\ UNCHANGED <<clientVars, catalogVars, argVars, retry_count, req, resp, song,
                   token_request, sleep_for, ret>>

\* Any other status, 401 among them: raise SystemExit.
RecommendationsOtherStatus(w) ==
    /\ pc[w] = "gr_recv"
    /\ ~resp[w].exc /\ resp[w].status \notin {200, 429}
    /\ Finish(w, Returned("SystemExit", <<0, 0>>))
    /\ UNCHANGED <<clientVars, catalogVars, argVars, retry_count, req, resp, song,
                   token_request, sleep_for, ret>>

\* None of the three catches a requests exception: it leaves the method.
SingleRequestNetworkFailure(w) ==
    /\ pc[w] \in {"cp_recv", "at_recv", "gr_recv"}
    /\ resp[w].exc
    /\ Finish(w, Returned("ConnectionError", <<0, 0>>))
    /\ UNCHANGED <<clientVars, catalogVars, argVars, retry_count, req, resp, song,
                   token_request, sleep_for, ret>>

(***************************************************************************)
(* SpotifyClient._get_user_id, which __init__ runs.                        *)
(***************************************************************************)
\* for _ in range(num_retries): user_profile = requests.get(".../v1/me", ...)
UserIdSend(w) ==
    /\ pc[w] = "ui_loop"
    /\ rounds.i < num_retries
    /\ rounds' = [rounds EXCEPT !.i = @ + 1, !.requests = @ + 1]
    /\ SendRequest(w, "me", 0, "ui_wait")
    /\ UNCHANGED <<clientVars, catalogVars, op, song_details, track_id_list,
                   seed_track, playlist_id, query_string, pipelineVars, retry_count, resp, song,
                   token_request, sleep_for, ret, result>>

\* The range is used up: raise SystemExit("Could not refresh token")
UserIdExhausted(w) ==
    /\ pc[w] = "ui_loop"
    /\ rounds.i = num_retries
    /\ Finish(w, Returned("SystemExit", <<0, 0>>))
    /\ UNCHANGED <<clientVars, catalogVars, argVars, retry_count, req, resp, song,
                   token_request, sleep_for, ret>>

\* 401: self._refesh_token(); continue
UserIdTokenExpired(w) ==
    /\ pc[w] = "ui_recv"
    /\ ~resp[w].exc /\ resp[w].status = 401
    /\ rounds' = [rounds EXCEPT !.refreshes = @ + 1]
    /\ CallRefresh(w, "ui_loop")
    /\ UNCHANGED <<clientVars, catalogVars, op, song_details, track_id_list,
                   seed_track, playlist_id, query_string, pipelineVars, retry_count, req, resp,
                   song, sleep_for, result>>

\* 200: return user_profile.json()["id"]
UserIdOk(w) ==
    /\ pc[w] = "ui_recv"
    /\ ~resp[w].exc /\ resp[w].status = 200
    /\ Finish(w, Returned("user_id", <<0, 0>>))
    /\ UNCHANGED <<clientVars, catalogVars, argVars, retry_count, req, resp, song,
                   token_request, sleep_for, ret>>

\* Variant of UserIdOtherStatus in which such an answer does not use up a
\* round of the loop.
UserIdOtherStatusRepeats(w) ==
    /\ pc[w] = "ui_recv"
    /\ ~resp[w].exc /\ resp[w].status \notin {401, 200}
    /\ rounds' = [rounds EXCEPT !.i = @ - 1]
    /\ pc' = [pc EXCEPT ![w] = "ui_loop"]
    /\ UNCHANGED <<clientVars, catalogVars, op, song_details, track_id_list,
                   seed_track, playlist_id, query_string, pipelineVars, retry_count, req, resp,
                   song, token_request, sleep_for, ret, result>>

\* Any other status: neither branch is taken, the loop goes on to its next
\* round at once.
UserIdOtherStatus(w) ==
    /\ pc[w] = "ui_recv"
    /\ ~resp[w].exc /\ resp[w].status \notin {401, 200}
    /\ rounds' = rounds
    /\ pc' = [pc EXCEPT ![w] = "ui_loop"]
    /\ UNCHANGED <<clientVars, catalogVars, op, song_details, track_id_list,
                   seed_track, playlist_id, query_string, pipelineVars, retry_count, req, resp,
                   song, token_request, sleep_for, ret, result>>

\* requests.get raises: nothing catches it, it leaves __init__.
UserIdNetworkFailure(w) ==
    /\ pc[w] = "ui_recv"
    /\ resp[w].exc
    /\ Finish(w, Returned("ConnectionError", <<0, 0>>))
    /\ UNCHANGED <<clientVars, catalogVars, argVars, retry_count, req, resp, song,
                   token_request, sleep_for, ret>>

(***************************************************************************)
(* pipeline.spotify_pipeline: the tables.                                  *)
(***************************************************************************)
Min(a, b) == IF a < b THEN a ELSE b

\* A row of SELECT DISTINCT title, artist, year FROM tracks.
Row(t, a, y) == [title |-> t, artist |-> a, year |-> y]

\* track_date is a nullable column of tracks: the date of a track without one.
NullDate == 0

\* Tables of a few tracks: the titles 1..n of artist 1 dated 1, alone, or
\* with title 1 once more under another date, or under another artist; and
\* the same titles with title 1 undated.
SmallTables ==
    {[i \in 1..n |-> Row(i, 1, 1)] \o extra :
        n \in 1..MaxTitles,
        extra \in {<<>>, <<Row(1, 1, 2)>>, <<Row(1, 2, 1)>>}}
    \cup {[i \in 1..n |-> Row(i, 1, IF i = 1 THEN NullDate ELSE 1)] :
              n \in 1..MaxTitles}

\* Tables of more tracks than one chunk holds.
BigTables ==
    {[i \in 1..(chunksize + k) |-> Row(i, 1, 1)] : k \in 1..MaxSurplus}

Titles(table) == {table[i].title : i \in DOMAIN table}

\* How the search of each title ends: in a track id, in None, or in
\* SystemExit. Every combination for a small table; for a big one: all
\* found, none found, none of the first chunk found, every second found.
SearchOutcomes(table) ==
    IF Len(table) <= chunksize
    THEN [Titles(table) -> {"id", "None", "SystemExit"}]
    ELSE {[t \in Titles(table) |-> "id"],
          [t \in Titles(table) |-> "None"],
          [t \in Titles(table) |-> IF t > chunksize THEN "id" ELSE "None"],
          [t \in Titles(table) |-> IF t % 2 = 1 THEN "id" ELSE "None"]}

\* Variant of SelectTracks without the NOT EXISTS condition.
SelectEveryTrack(table, feats) ==
    SubSeq(table, 1, Min(Len(table), SELECT_LIMIT))

\* The SELECT of get_query: the tracks without a features row of the same
\* artist, title and date, at most SELECT_LIMIT of them.
SelectTracks(table, feats) ==
    LET rows == SelectSeq(table, LAMBDA t :
                    ~\E f \in feats : /\ t.artist = f.artist
                                      /\ t.title = f.title
                                      /\ t.year # NullDate
                                      /\ t.year = f.year)
    IN  SubSeq(rows, 1, Min(Len(rows), SELECT_LIMIT))

\* The tuple of insert_data's INSERT: the three postgres_ values and the ten
\* feature values, which are all null for a dict without them.
FeatureRow(t, a, y, feature) ==
    [title |-> t, artist |-> a, year |-> y, features |-> feature]

\* Variant of Conflicts that knows the primary key only.
ConflictsOnPrimaryKey(row, feats) ==
    \E f \in feats :
        f.title = row.title /\ f.artist = row.artist /\ f.year = row.year

\* The INSERT fails: UNIQUE(track_title, track_artist), which covers
\* PRIMARY KEY(track_title, track_artist, track_year).
Conflicts(row, feats) ==
    \E f \in feats : f.title = row.title /\ f.artist = row.artist

\* The INSERT raises: there is no features table, track_year is NOT NULL,
\* or the row breaks the uniqueness constraint.
InsertFails(row) ==
    \/ relation = "absent"
    \/ row.year = NullDate
    \/ Conflicts(row, features)

\* conn.rollback(): the open transaction is undone, and with it a CREATE
\* TABLE that no commit has made durable yet.
Rollback == IF relation = "created" THEN "absent" ELSE relation

\* insert_data(row): conn.commit() of the row and of everything else the
\* transaction holds, or print the error and conn.rollback().
InsertData(row) ==
    /\ features' = IF InsertFails(row) THEN features ELSE features \cup {row}
    /\ relation' = IF InsertFails(row) THEN Rollback ELSE "committed"
    /\ attempts' = Append(attempts, [row |-> row, ok |-> ~InsertFails(row)])

\* app.search_track's id of a track, and its None.
NoId == <<0, 0>>
SearchResult(track) ==
    IF found[track.title] = "id"
    THEN Returned("id", TrackId(track.artist, track.title))
    ELSE Returned(found[track.title], NoId)

\* search_retrieve's tuple: (title, artist, year, sptfy_track_id).
SearchTuple(track, outcome) ==
    <<track.title, track.artist, track.year, outcome.id>>

\* id_chunks[k]: search_requests[i : i + chunksize] for the k-th i of
\* range(0, len(search_requests), chunksize).
UnslicedChunk(requests, k) ==
    SubSeq(requests, (k - 1) * chunksize + 1, Len(requests))

IdChunk(requests, k) ==
    SubSeq(requests, (k - 1) * chunksize + 1,
           Min(k * chunksize, Len(requests)))

\* len(id_chunks)
NumChunks(requests) == (Len(requests) + chunksize - 1) \div chunksize

\* The rows of the zip over the resolved tracks of the chunk and the
\* records of get_track_features: it ends with the shorter of the two.
ZipRowsFromWholeChunk(resolved, recs) ==
    LET whole == IdChunk(search_requests, chunk_no)
    IN  [i \in 1..Min(Len(whole), Len(recs)) |->
            FeatureRow(whole[i][1], whole[i][2], whole[i][3], recs[i])]

ZipRows(resolved, recs) ==
    [i \in 1..Min(Len(resolved), Len(recs)) |->
        FeatureRow(resolved[i][1], resolved[i][2], resolved[i][3], recs[i])]

\* What one get_track_features call of the run can yield: the records of a
\* 200 body in which every id, every id but the first, or no id has
\* features; or nothing, after MAX_RETRIES network failures.
PipelineYields(ids) ==
    {FeatureRecords([kind |-> "features",
                     audio_features |-> [i \in DOMAIN ids |->
                         IF i \in known THEN Features(ids[i]) ELSE NullFeatures]]) :
        known \in {DOMAIN ids, DOMAIN ids \ {1}, {}}}
    \cup {<<>>}

(***************************************************************************)
(* pipeline.spotify_pipeline: the run.                                     *)
(***************************************************************************)
clientCallVars == <<clientVars, catalogVars, pc, op, song_details, track_id_list,
                    seed_track, playlist_id, rounds, query_string, retry_count, req,
                    resp, song,
                    token_request, sleep_for, ret, result>>

\* Variant of EndRun in which a SystemExit of get_track_features is
\* swallowed: the run goes on with the zip loop and the chunks after it.
EndRunResumes(exception) ==
    /\ ppc' = IF exception = "SystemExit" /\ ppc = "features" THEN "rows" ELSE "idle"
    /\ crash' = exception
    /\ relation' = Rollback

\* The run ends: spotify_pipeline returns (exception = "") or raises, and
\* the connection is closed with no commit of its own.
EndRun(exception) ==
    /\ ppc' = "idle"
    /\ crash' = exception
    /\ relation' = Rollback

\* CREATE TABLE IF NOT EXISTS features; the SELECT; tracks = cur.fetchall();
\* executor.map(search_retrieve, tracks, iter_app) queues a search per track.
StartRun ==
    /\ ppc = "idle"
    /\ runs < MaxRuns
    /\ runs' = runs + 1
    /\ relation' = IF relation = "absent" THEN "created" ELSE relation
    /\ tracks' = SelectTracks(tracks_table, features)
    /\ results' = [i \in DOMAIN tracks' |-> Running]
    /\ task' = [w \in Workers |-> 0]
    /\ next_task' = 1
    /\ overtaken' = FALSE
    /\ search_requests' = <<>>
    /\ attempts' = <<>>
    /\ chunk_no' = 0 /\ chunk' = <<>> /\ no_id_list' = <<>>
    /\ chunk_id_list' = <<>> /\ yielded' = <<>> /\ pos' = 0
    /\ ppc' = "map"
    /\ crash' = ""
    /\ UNCHANGED <<clientCallVars, dbVars>>

\* An idle pool thread takes the next queued search.
TakeTask(w) ==
    /\ ppc = "map"
    /\ task[w] = 0
    /\ next_task <= Len(tracks)
    /\ task' = [task EXCEPT ![w] = next_task]
    /\ next_task' = next_task + 1
    /\ UNCHANGED <<clientCallVars, dbVars, relation, runs, ppc, crash, tracks, results,
                   overtaken, search_requests, loopVars, attempts>>

\* search_retrieve ends on a pool thread: app.search_track returned an id or
\* None, or raised.
SearchRetrieve(w) ==
    /\ ppc = "map"
    /\ task[w] # 0
    /\ results' = [results EXCEPT ![task[w]] = SearchResult(tracks[task[w]])]
    /\ overtaken' = (overtaken \/ \E v \in Workers : task[v] # 0 /\ task[v] < task[w])
    /\ task' = [task EXCEPT ![w] = 0]
    /\ UNCHANGED <<clientCallVars, dbVars, relation, runs, ppc, crash, tracks, next_task,
                   search_requests, loopVars, attempts>>

\* for result in results: the iterator of executor.map gives the results in
\* the order of tracks, and raises at the first search that raised.
MapRaises ==
    /\ ppc = "map"
    /\ \E i \in DOMAIN results :
          /\ results[i].kind = "SystemExit"
          /\ \A j \in 1..(i - 1) : results[j].kind \in {"id", "None"}
    /\ task' = [w \in Workers |-> 0]
    /\ EndRun("SystemExit")
    /\ UNCHANGED <<clientCallVars, dbVars, runs, tracks, next_task, results,
                   overtaken, search_requests, loopVars, attempts>>

\* The for loop over results has appended every result to search_requests.
MapDone ==
    /\ ppc = "map"
    /\ \A i \in DOMAIN results : results[i].kind \in {"id", "None"}
    /\ search_requests' = [i \in DOMAIN tracks |-> SearchTuple(tracks[i], results[i])]
    /\ chunk_no' = 1
    /\ ppc' = "chunks"
    /\ UNCHANGED <<clientCallVars, dbVars, relation, runs, crash, tracks, poolVars,
                   chunk, no_id_list, chunk_id_list, yielded, pos, attempts>>

\* for chunk in id_chunks: no_id_list = the tracks of the chunk with
\* track[3] is None; chunk = the tracks of the chunk not in no_id_list.
ChunkBegin ==
    /\ ppc = "chunks"
    /\ chunk_no <= NumChunks(search_requests)
    /\ LET whole == IdChunk(search_requests, chunk_no)
           unresolved == SelectSeq(whole, LAMBDA track : track[4] = NoId)
       IN  /\ no_id_list' = unresolved
           /\ chunk' = SelectSeq(whole, LAMBDA track :
                           \A i \in DOMAIN unresolved : track # unresolved[i])
    /\ pos' = 1
    /\ ppc' = "no_id"
    /\ UNCHANGED <<clientCallVars, dbVars, relation, runs, crash, tracks, poolVars,
                   search_requests, chunk_no, chunk_id_list, yielded, attempts>>

\* id_chunks is exhausted: spotify_pipeline returns.
ChunksDone ==
    /\ ppc = "chunks"
    /\ chunk_no > NumChunks(search_requests)
    /\ EndRun("")
    /\ UNCHANGED <<clientCallVars, dbVars, runs, tracks, poolVars,
                   search_requests, loopVars, attempts>>

\* for no_id in no_id_list: insert_data of the three postgres_ values alone.
InsertNoId ==
    /\ ppc = "no_id"
    /\ pos <= Len(no_id_list)
    /\ InsertData(FeatureRow(no_id_list[pos][1], no_id_list[pos][2],
                             no_id_list[pos][3], EmptyDict))
    /\ pos' = pos + 1
    /\ UNCHANGED <<clientCallVars, tracks_table, found, runs, ppc, crash, tracks,
                   poolVars, search_requests, chunk_no, chunk, no_id_list,
                   chunk_id_list, yielded>>

\* unzipped = list(zip(*chunk)); unzipped[0] ... unzipped[3] of a chunk that
\* has a resolved track: track_id_list is the column of the ids.
Unzip ==
    /\ ppc = "no_id"
    /\ pos > Len(no_id_list)
    /\ chunk # <<>>
    /\ chunk_id_list' = [i \in DOMAIN chunk |-> chunk[i][4]]
    /\ ppc' = "features"
    /\ UNCHANGED <<clientCallVars, dbVars, relation, runs, crash, tracks, poolVars,
                   search_requests, chunk_no, chunk, no_id_list, yielded, pos,
                   attempts>>

\* The same of a chunk without a resolved track: unzipped is [] and
\* unzipped[0] raises IndexError.
UnzipEmpty ==
    /\ ppc = "no_id"
    /\ pos > Len(no_id_list)
    /\ chunk = <<>>
    /\ EndRun("IndexError")
    /\ UNCHANGED <<clientCallVars, dbVars, runs, tracks, poolVars,
                   search_requests, loopVars, attempts>>

\* app.get_track_features(track_id_list) yields its records.
GetFeatures ==
    /\ ppc = "features"
    /\ \E recs \in PipelineYields(chunk_id_list) : yielded' = recs
    /\ pos' = 1
    /\ ppc' = "rows"
    /\ UNCHANGED <<clientCallVars, dbVars, relation, runs, crash, tracks, poolVars,
                   search_requests, chunk_no, chunk, no_id_list, chunk_id_list,
                   attempts>>

\* app.get_track_features(track_id_list) raises SystemExit: a status
\* other than 200, 429 and 401.
GetFeaturesExits ==
    /\ ppc = "features"
    /\ EndRun("SystemExit")
    /\ UNCHANGED <<clientCallVars, dbVars, runs, tracks, poolVars,
                   search_requests, loopVars, attempts>>

\* One turn of the for loop over the zip: the feature dict gets the three
\* postgres_ values of its position and goes to insert_data.
InsertFeatureRow ==
    /\ ppc = "rows"
    /\ pos <= Len(ZipRows(chunk, yielded))
    /\ InsertData(ZipRows(chunk, yielded)[pos])
    /\ pos' = pos + 1
    /\ UNCHANGED <<clientCallVars, tracks_table, found, runs, ppc, crash, tracks,
                   poolVars, search_requests, chunk_no, chunk, no_id_list,
                   chunk_id_list, yielded>>

\* The zip is exhausted: on to the next chunk.
ChunkEnd ==
    /\ ppc = "rows"
    /\ pos > Len(ZipRows(chunk, yielded))
    /\ chunk_no' = chunk_no + 1
    /\ ppc' = "chunks"
    /\ UNCHANGED <<clientCallVars, dbVars, relation, runs, crash, tracks, poolVars,
                   search_requests, chunk, no_id_list, chunk_id_list, yielded,
                   pos, attempts>>

(***************************************************************************)
(* Specifications.                                                         *)
(***************************************************************************)
Refresh(w) ==
    \/ RefreshSend(w)
    \/ RefreshOk(w)
    \/ RefreshRejected(w)
    \/ CallSaveCredentials(w)
    \/ SaveCredentials(w)

SearchTrack(w) ==
    \/ SearchSend(w)
    \/ SearchExhausted(w)
    \/ SearchOk(w)
    \/ SearchRateLimited(w)
    \/ SearchTokenExpired(w)
    \/ SearchServerError(w)
    \/ SearchOtherStatus(w)
    \/ SearchNetworkFailure(w)
    \/ ExaminePage(w)
    \/ NextPageSend(w)
    \/ NextPageRateLimited(w)
    \/ NextPageTokenExpired(w)
    \/ NextPageTaken(w)
    \/ NextPageNetworkFailure(w)

GetTrackFeatures(w) ==
    \/ FeaturesSend(w)
    \/ FeaturesExhausted(w)
    \/ FeaturesOk(w)
    \/ FeaturesRateLimited(w)
    \/ FeaturesTokenExpired(w)
    \/ FeaturesOtherStatus(w)
    \/ FeaturesNetworkFailure(w)

Next ==
    \/ ExpireToken
    \/ \E w \in Workers :
          \/ CatalogRespond(w)
          \/ TokenRespond(w)
          \/ Wake(w)
          \/ Refresh(w)
          \/ SearchTrack(w)
          \/ GetTrackFeatures(w)

Spec == Init /\ [][Next]_vars

\* One thread runs one call of a method that sends a single request.
InitSingle ==
    /\ InitCommon
    /\ PipelineOff
    /\ \E c \in Calls("create_playlist") \cup Calls("add_track")
                 \cup Calls("get_recommendations") :
          Start([w \in Workers |-> IF w = 1 THEN c ELSE NoCall])

CreatePlaylist(w) ==
    \/ CreatePlaylistSend(w)
    \/ CreatePlaylistOk(w)
    \/ CreatePlaylistRateLimited(w)
    \/ CreatePlaylistOtherStatus(w)

AddTrack(w) ==
    \/ AddTrackSend(w)
    \/ AddTrackOk(w)
    \/ AddTrackRateLimited(w)
    \/ AddTrackOtherStatus(w)

GetRecommendations(w) ==
    \/ RecommendationsSend(w)
    \/ RecommendationsTooFew(w)
    \/ RecommendationsOk(w)
    \/ RecommendationsRateLimited(w)
    \/ RecommendationsOtherStatus(w)

NextSingle ==
    \/ ExpireToken
    \/ \E w \in Workers :
          \/ CatalogRespond(w)
          \/ CreatePlaylist(w)
          \/ AddTrack(w)
          \/ GetRecommendations(w)
          \/ MainAddTrack(w)
          \/ SingleRequestNetworkFailure(w)

SpecSingle == InitSingle /\ [][NextSingle]_vars

\* The construction of the client: one thread runs _get_user_id.
InitConstruct ==
    /\ InitCommon
    /\ PipelineOff
    /\ \E c \in Calls("_get_user_id") :
          Start([w \in Workers |-> IF w = 1 THEN c ELSE NoCall])

GetUserId(w) ==
    \/ UserIdSend(w)
    \/ UserIdExhausted(w)
    \/ UserIdTokenExpired(w)
    \/ UserIdOk(w)
    \/ UserIdOtherStatus(w)
    \/ UserIdNetworkFailure(w)

NextConstruct ==
    \/ ExpireToken
    \/ \E w \in Workers :
          \/ CatalogRespond(w)
          \/ TokenRespond(w)
          \/ Refresh(w)
          \/ GetUserId(w)

SpecConstruct == InitConstruct /\ [][NextConstruct]_vars

\* One thread starts search_track for a track of any title.
InitTitle ==
    /\ InitCommon
    /\ PipelineOff
    /\ pc = [w \in Workers |-> IF w = 1 THEN "st_query" ELSE "off"]
    /\ op = [w \in Workers |-> IF w = 1 THEN "search_track" ELSE ""]
    /\ \E title \in TitleInputs :
          song_details = [w \in Workers |-> [artist |-> NameA, title |-> title]]
    /\ track_id_list = [w \in Workers |-> <<>>]

SpecTitle == InitTitle /\ [][\E w \in Workers : BuildQuery(w)]_vars

\* A database and a catalog, before the first spotify_pipeline run over
\* them, with or without a features table; a big table gets the last of the
\* runs only, the runs before it have left an empty features table.
InitPipeline ==
    /\ InitCommon
    /\ valid = {0}
    /\ Start([w \in Workers |-> NoCall])
    /\ \/ tracks_table \in SmallTables /\ runs = 0
          /\ relation \in {"absent", "committed"}
       \/ tracks_table \in BigTables /\ runs = MaxRuns - 1
          /\ relation = "committed"
    /\ found \in SearchOutcomes(tracks_table)
    /\ features = {}
    /\ ppc = "idle"
    /\ crash = ""
    /\ tracks = <<>>
    /\ task = [w \in Workers |-> 0]
    /\ next_task = 1
    /\ results = <<>>
    /\ overtaken = FALSE
    /\ search_requests = <<>>
    /\ chunk_no = 0
    /\ chunk = <<>>
    /\ no_id_list = <<>>
    /\ chunk_id_list = <<>>
    /\ yielded = <<>>
    /\ pos = 0
    /\ attempts = <<>>

NextPipeline ==
    \/ StartRun
    \/ \E w \in Workers : TakeTask(w) \/ SearchRetrieve(w)
    \/ MapRaises
    \/ MapDone
    \/ ChunkBegin
    \/ ChunksDone
    \/ InsertNoId
    \/ Unzip
    \/ UnzipEmpty
    \/ GetFeatures
    \/ GetFeaturesExits
    \/ InsertFeatureRow
    \/ ChunkEnd

SpecPipeline == InitPipeline /\ [][NextPipeline]_vars

(***************************************************************************)
(* Vocabulary of the properties.                                           *)
(***************************************************************************)
Searching == {w \in Workers : op[w] = "search_track"}
Calling == {w \in Workers : op[w] \in {"search_track", "get_track_features"}}

\* The positions of a page's candidates that list an artist of the query.
Intersecting(body, artist) ==
    {i \in DOMAIN body.items :
        /\ body.items[i].kind = "track"
        /\ (InputArtistSet(artist) \cap ResultArtistSet(body.items[i].artists)) # {}}

Lowest(S) == CHOOSE i \in S : \A j \in S : i <= j

\* The positions of a page's candidates without an artist list.
NullCandidates(body) ==
    {i \in DOMAIN body.items : body.items[i].kind \in {"null", "null_artists"}}

\* Worker w holds an answer with this status as its latest response.
Got(w, status) == ~resp[w].exc /\ resp[w].status = status

\* This step is worker w sending a request.
Sends(w) == pc[w] \notin WaitPc /\ pc'[w] \in WaitPc

\* C1: when the first result page has a candidate whose artist set
\* intersects the query's lowercased co-artist set, search_track returns the
\* id of the lowest-index such candidate, whatever stands at lower indexes.
C1_FirstIntersectingWins ==
    \A w \in Searching :
        (/\ pc[w] = "done"
         /\ song[w].kind = "page"
         /\ song[w].no = 1
         /\ Intersecting(song[w], song_details[w].artist) # {})
        => result[w] = Returned("id",
              TrackId(1, Lowest(Intersecting(song[w], song_details[w].artist))))

\* C2: when the catalog served its pages, none of them empty, and no
\* candidate intersects the query's artists, search_track returns None, and
\* only after the page without a next link was examined.
C2_NotFoundAfterEveryPage ==
    \A w \in Searching :
        (/\ pc[w] = "done"
         /\ song[w].kind = "page"
         /\ Len(song[w].items) > 0
         /\ Intersecting(song[w], song_details[w].artist) = {})
        => (result[w].kind = "None" /\ ~song[w].next)

\* C3: a candidate without an artist list is skipped: examining a page that
\* holds one raises nothing, returns a later intersecting candidate of the
\* page, and does not end the search while a further page is linked.
C3_NullCandidateSkipped ==
    \A w \in Searching :
        (/\ pc[w] = "done"
         /\ song[w].kind = "page"
         /\ NullCandidates(song[w]) # {})
        => LET hits == Intersecting(song[w], song_details[w].artist)
           IN  /\ result[w].kind # "TypeError"
               /\ hits # {} => result[w] = Returned("id", TrackId(song[w].no, Lowest(hits)))
               /\ hits = {} => ~song[w].next

RecvPcs == {"st_recv", "np_recv", "gf_recv"}

\* C4: a 429 with retry-after = n makes the caller sleep 2 * n seconds, after
\* which it sends the same request again; the network-failure counter does
\* not move, and the call does not end on the 429.
C4_RateLimitedRetriesSame ==
    [][\A w \in Calling :
         /\ (Got(w, 429) /\ pc[w] \in RecvPcs /\ pc'[w] # pc[w])
            => /\ pc'[w] = "sleep"
               /\ \A n \in resp[w].retry_after : sleep_for'[w] = 2 * n
               /\ retry_count'[w] = retry_count[w]
         /\ (Got(w, 429) /\ Sends(w)) => req'[w] = req[w]
         /\ (Got(w, 429) /\ resp'[w] = resp[w])
            => (retry_count'[w] = retry_count[w] /\ pc'[w] # "done")]_vars

\* C4 witness: a request is in flight again after a 429 with retry-after 2.
C4_Witness ==
    \E w \in Calling :
        pc[w] \in WaitPc /\ Got(w, 429) /\ resp[w].retry_after = {2}

\* C6: once the token endpoint has rejected a refresh, the operation that
\* asked for it sends no further request.
C6_RejectedRefreshStops ==
    \A w \in Calling :
        token_request[w].status \notin {0, 200} => pc[w] \notin WaitPc

\* C7: a search_track whose search request failed in the network
\* MAX_RETRIES times ends with an error, not with None.
C7_ExhaustionIsFatal ==
    \A w \in Searching :
        (pc[w] = "done" /\ retry_count[w] = MAX_RETRIES) => result[w].kind # "None"

\* The statuses the status chain of worker w's method handles by name.
Handled(w) ==
    IF op[w] = "search_track" THEN {200, 429, 401, 500} ELSE {200, 429, 401}

\* C8: any other status of the initial search request, or of the features
\* request, ends the call with SystemExit, and an ended call sends nothing.
C8_OtherStatusIsFatal ==
    [][\A w \in Calling :
         /\ (/\ pc[w] \in {"st_recv", "gf_recv"}
             /\ ~resp[w].exc
             /\ resp[w].status \notin Handled(w)
             /\ pc'[w] # pc[w])
            => (pc'[w] = "done" /\ result'[w].kind = "SystemExit")
         /\ pc[w] = "done" => (pc'[w] = "done" /\ req'[w] = req[w])]_vars

\* C8 witness: get_track_features has ended with SystemExit on a 500.
C8_Witness ==
    \E w \in Calling :
        /\ op[w] = "get_track_features"
        /\ pc[w] = "done"
        /\ result[w].kind = "SystemExit"
        /\ Got(w, 500)

\* C9: a 401 makes the caller refresh the token and send the same request
\* again with the token the client holds after the refresh; the
\* network-failure counter does not move.
C9_TokenExpiredRetriesFresh ==
    [][\A w \in Calling :
         /\ (Got(w, 401) /\ pc[w] \in RecvPcs /\ pc'[w] # pc[w])
            => (pc'[w] = "rf_send" /\ retry_count'[w] = retry_count[w])
         /\ (Got(w, 401) /\ Sends(w))
            => /\ token_request[w].status # 0
               /\ req'[w].endpoint = req[w].endpoint
               /\ req'[w].page = req[w].page
               /\ req'[w].token = access_token
               /\ token_request[w].status = 200
                  => req'[w].token = token_request[w].access_token
         /\ (Got(w, 401) /\ resp'[w] = resp[w])
            => (retry_count'[w] = retry_count[w] /\ pc'[w] # "done")]_vars

\* C9 witness: after a 401 and a refresh that the token endpoint granted, the
\* request is in flight again with the new token.
C9_Witness ==
    \E w \in Calling :
        /\ pc[w] \in WaitPc
        /\ Got(w, 401)
        /\ token_request[w].status = 200
        /\ req[w].token = token_request[w].access_token
        /\ req[w].token # 0

\* C10: a 500 of the initial search request makes search_track sleep 3
\* seconds and send the same request again; the network-failure counter does
\* not move, and the call does not end on the 500.
C10_ServerErrorRetried ==
    [][\A w \in Searching :
         /\ (Got(w, 500) /\ pc[w] = "st_recv" /\ pc'[w] # pc[w])
            => /\ pc'[w] = "sleep"
               /\ sleep_for'[w] = 3
               /\ retry_count'[w] = retry_count[w]
         /\ (Got(w, 500) /\ req[w].endpoint = "search" /\ Sends(w))
            => req'[w] = req[w]
         /\ (Got(w, 500) /\ req[w].endpoint = "search" /\ resp'[w] = resp[w])
            => (retry_count'[w] = retry_count[w] /\ pc'[w] # "done")]_vars

\* C10 witness: the search request is in flight again after a 500.
C10_Witness ==
    \E w \in Searching : pc[w] = "st_wait" /\ Got(w, 500)

(***************************************************************************)
(* The worker threads of spotify_pipeline: executor.map(search_retrieve,   *)
(* tracks, iter_app) runs search_track on several threads that share one   *)
(* SpotifyClient.  SpecConc follows two of them through the token expiry:  *)
(* the catalog answers 401, or 200 with a last page of one candidate at    *)
(* most.                                                                   *)
(***************************************************************************)
InitConc ==
    /\ InitCommon
    /\ PipelineOff
    /\ \E c \in Calls("search_track") : Start([w \in Workers |-> c])

ConcOutcomes(w) ==
    {r \in Outcomes(w) :
        /\ ~r.exc
        /\ r.status \in {200, 401}
        /\ r.status = 200 => (~r.body.next /\ Len(r.body.items) <= 1)}

\* The catalog answers the request of worker w with 401 or 200.
ConcCatalogRespond(w) ==
    /\ pc[w] \in WaitPc
    /\ \E r \in ConcOutcomes(w) : resp' = [resp EXCEPT ![w] = r]
    /\ pc' = [pc EXCEPT ![w] = RecvPc(pc[w])]
    /\ UNCHANGED <<clientVars, catalogVars, argVars, retry_count, req, song,
                   token_request, sleep_for, ret, result>>

NextConc ==
    \/ ExpireToken
    \/ \E w \in Workers :
          \/ ConcCatalogRespond(w)
          \/ TokenRespond(w)
          \/ Refresh(w)
          \/ SearchSend(w)
          \/ SearchOk(w)
          \/ SearchTokenExpired(w)
          \/ ExaminePage(w)

SpecConc == InitConc /\ [][NextConc]_vars

InRefresh == {"rf_wait", "rf_recv", "rf_save", "rf_write"}

\* C5: two workers that each got a 401 for a request sent with the same
\* access token never both have a refresh request out: one refresh is sent.
C5_SingleRefresh ==
    \A w1, w2 \in Searching :
        (/\ w1 # w2
         /\ Got(w1, 401) /\ Got(w2, 401)
         /\ req[w1].token = req[w2].token)
        => ~(pc[w1] \in InRefresh /\ pc[w2] \in InRefresh)

(***************************************************************************)
(* The retry policy of the catalog operations.                             *)
(***************************************************************************)
CatalogOps == {"search_track", "create_playlist", "add_track",
               "get_track_features", "get_recommendations"}

\* C11: in every catalog operation a 429 or a 401 is followed by a retry:
\* no call of search_track, create_playlist, add_track, get_track_features
\* or get_recommendations has ended with a 429 or a 401 as the last answer
\* to its request.
C11_EveryOperationRetries ==
    \A w \in Workers :
        (op[w] \in CatalogOps /\ pc[w] = "done")
        => ~(Got(w, 429) \/ Got(w, 401))

(***************************************************************************)
(* The records of get_track_features.                                      *)
(***************************************************************************)
FetchingFeatures == {w \in Workers : op[w] = "get_track_features"}

Fold(s) == Unidecode(Lower(s))

\* The candidates of a page that list an artist equal to an artist of the
\* query once both are folded.
SharingFolded(body, artist) ==
    {i \in DOMAIN body.items :
        /\ body.items[i].kind = "track"
        /\ \E q \in SeqToSet(Split(artist)) :
              \E j \in DOMAIN body.items[i].artists :
                 Fold(q) = Fold(body.items[i].artists[j])}

\* C13: artists are compared without case and without diacritics on both
\* sides: a search that ended on a page whose candidates all have an artist
\* list, one of them sharing an artist with the query up to case and
\* diacritics, has returned a track id.
C13_FoldedOnBothSides ==
    \A w \in Searching :
        (/\ pc[w] = "done"
         /\ song[w].kind = "page"
         /\ NullCandidates(song[w]) = {}
         /\ SharingFolded(song[w], song_details[w].artist) # {})
        => result[w].kind = "id"

(***************************************************************************)
(* Malformed bodies.                                                       *)
(***************************************************************************)
\* A 200 body lacks a key that search_track reads: it has no "tracks", or a
\* candidate of it has no "artists".
LacksKey(body) ==
    \/ body.kind # "page"
    \/ \E i \in DOMAIN body.items : body.items[i].kind = "no_artists_key"

\* C17: a search that ended on a 200 body that lacks a key search_track
\* reads has returned None: it has raised nothing.
C17_MalformedBodyIsNotFound ==
    \A w \in Searching :
        (pc[w] = "done" /\ Got(w, 200) /\ LacksKey(song[w]))
        => result[w].kind = "None"

(***************************************************************************)
(* Persistence of a refreshed token.                                       *)
(***************************************************************************)
\* C18: _refesh_token has written a new access token to the credentials
\* file before it returns, so every request a worker sends carries the
\* access token the credentials file holds at that moment: a refreshed
\* token is never on the wire before it is persisted.
C18_PersistedBeforeUse ==
    [][\A w \in Workers :
          Sends(w) => req'[w].token = credentials_file.access_token]_vars

(***************************************************************************)
(* The seeds of get_recommendations.                                       *)
(***************************************************************************)
Recommending == {w \in Workers : op[w] = "get_recommendations"}

\* C20: a get_recommendations call given more than 5 track ids that has sent
\* its request has sent exactly 5 seed ids, taken from 5 distinct positions
\* of the list it was given.
C20_FiveDistinctSeeds ==
    \A w \in Recommending :
        (Len(track_id_list[w]) > SEED_COUNT /\ req[w].endpoint = "recommendations")
        => /\ Len(SeedIds(track_id_list[w], seed_track[w])) = SEED_COUNT
           /\ \A i \in DOMAIN seed_track[w] : seed_track[w][i] \in DOMAIN track_id_list[w]
           /\ \A i, j \in DOMAIN seed_track[w] :
                 i # j => seed_track[w][i] # seed_track[w][j]

\* A call given 6 ids has its request out.
C20_Witness ==
    \E w \in Recommending :
        /\ Len(track_id_list[w]) = SEED_COUNT + 1
        /\ pc[w] = "gr_wait"
        /\ req[w].endpoint = "recommendations"
        /\ Len(seed_track[w]) = SEED_COUNT

(***************************************************************************)
(* The features table.                                                     *)
(***************************************************************************)
\* C14: at every moment of every spotify_pipeline run the features table
\* holds at most one row per (title, artist).
C14_OneRowPerTitleArtist ==
    \A f, g \in features :
        (f.title = g.title /\ f.artist = g.artist) => f = g

\* In a second run an insert was refused: the track's title and artist have
\* a features row already, under another date.
C14_Witness ==
    /\ runs = 2
    /\ \E i \in DOMAIN attempts :
          /\ ~attempts[i].ok
          /\ \E f \in features :
                /\ f.title = attempts[i].row.title
                /\ f.artist = attempts[i].row.artist
                /\ f.year # attempts[i].row.year

(***************************************************************************)
(* The rows a run inserts.                                                 *)
(***************************************************************************)
\* The run has ended, and not in the SystemExit of a fatal API error.
RunEnded == ppc = "idle" /\ runs > 0 /\ crash # "SystemExit"

\* The insert_data calls of the run that carried this row.
Attempts(row) == {j \in DOMAIN attempts : attempts[j].row = row}

\* C15: when a run has ended, every track of it whose search returned None
\* has had one insert_data call with its title, artist and year and all ten
\* feature values null: no unresolved track is dropped.
C15_UnresolvedTracksInserted ==
    RunEnded =>
        \A i \in DOMAIN search_requests :
            search_requests[i][4] = NoId
            => Cardinality(Attempts(FeatureRow(search_requests[i][1],
                                               search_requests[i][2],
                                               search_requests[i][3],
                                               EmptyDict))) = 1

\* C16: whatever the order in which the pool threads end their searches,
\* every row handed to insert_data with feature values carries the title,
\* artist and year of the track whose search gave the id the features were
\* fetched for.
C16_RowsKeepTheirTrack ==
    \A j \in DOMAIN attempts :
        attempts[j].row.features.kind = "features_dict"
        => \E i \in DOMAIN search_requests :
              search_requests[i] = <<attempts[j].row.title,
                                     attempts[j].row.artist,
                                     attempts[j].row.year,
                                     attempts[j].row.features.of>>

\* A search ended before one that started earlier, the chunk had an
\* unresolved track, and a row with feature values was inserted.
C16_Witness ==
    /\ overtaken
    /\ no_id_list # <<>>
    /\ \E j \in DOMAIN attempts :
          attempts[j].ok /\ attempts[j].row.features.kind = "features_dict"

\* C19: every track_id_list that spotify_pipeline hands to
\* get_track_features holds at most 100 ids, however many tracks were
\* selected and however many of them were resolved.
C19_AtMostChunksizeIds == Len(chunk_id_list) <= chunksize

\* More tracks than one chunk holds were selected, and get_track_features
\* is being called with a full chunk of resolved ids.
C19_Witness ==
    /\ ppc = "features"
    /\ Len(search_requests) > chunksize
    /\ Len(chunk_id_list) = chunksize

(***************************************************************************)
(* Fatal statuses of get_recommendations.                                  *)
(***************************************************************************)
\* C21: a get_recommendations call whose request was answered with a status
\* outside 2xx has raised SystemExit: it has not returned without a list of
\* recommended ids.
C21_NonSuccessIsFatal ==
    \A w \in Recommending :
        (/\ pc[w] = "done"
         /\ ~resp[w].exc
         /\ req[w].endpoint = "recommendations"
         /\ resp[w].status \notin 200..299)
        => result[w].kind = "SystemExit"

(***************************************************************************)
(* Fatal errors and failed inserts of a run.                               *)
(***************************************************************************)
\* C22: the step in which a run raises SystemExit inserts nothing, no
\* insert_data call follows it in that run, and no step ever takes a
\* committed row out of the features table.
C22_FatalErrorStopsRun ==
    [][/\ features \subseteq features'
       /\ (crash' = "SystemExit" /\ runs' = runs)
          => (features' = features /\ attempts' = attempts)]_vars

\* A run has raised SystemExit after it had committed a row.
C22_Witness ==
    /\ ppc = "idle"
    /\ crash = "SystemExit"
    /\ \E j \in DOMAIN attempts : attempts[j].ok /\ attempts[j].row \in features

\* The row of the latest insert_data call, and whether it was committed.
LastAttempt == attempts'[Len(attempts')]

RowsOf(track) ==
    {f \in features : /\ f.title = track.title
                      /\ f.artist = track.artist
                      /\ f.year = track.year}

Selected == {tracks[i] : i \in DOMAIN tracks}

\* C24: a run selects, searches and inserts only tracks that had no features
\* row of their title, artist and date when it started: a selected track
\* has such a row only if this run has committed it, every search and every
\* insert_data call of the run is for a selected track.
C24_TracksWithRowAreSkipped ==
    /\ \A t \in Selected :
          \A f \in RowsOf(t) :
              \E j \in DOMAIN attempts : attempts[j].ok /\ attempts[j].row = f
    /\ \A w \in Workers : task[w] \in 0..Len(tracks)
    /\ \A j \in DOMAIN attempts :
          Row(attempts[j].row.title, attempts[j].row.artist,
              attempts[j].row.year) \in Selected

\* A second run has selected some track and has left out a track that has
\* its row.
C24_Witness ==
    /\ runs = 2
    /\ ppc = "map"
    /\ tracks # <<>>
    /\ \E i \in DOMAIN tracks_table :
          RowsOf(tracks_table[i]) # {} /\ tracks_table[i] \notin Selected

\* C25: the chunk loop of spotify_pipeline raises nothing of its own,
\* however the chunk splits into resolved and unresolved tracks: a run ends
\* by returning, or by the SystemExit of a client call.
C25_EveryChunkCompletes == crash \in {"", "SystemExit"}

(***************************************************************************)
(* The next-page fetch of search_track.                                    *)
(***************************************************************************)
\* C26: every network failure of a request of a search_track call, the
\* search request and the next-page fetches alike, adds one to the call's
\* retry counter.
C26_EveryNetworkFailureCounted ==
    [][\A w \in Searching :
          (/\ pc[w] \in {"st_recv", "np_recv"}
           /\ resp[w].exc
           /\ pc'[w] # pc[w])
          => retry_count'[w] = retry_count[w] + 1]_vars

\* C27: a next-page fetch treats its status as the search request does: a
\* search_track call whose latest answer is a next-page response with a
\* status other than 200 has not ended, unless by SystemExit; it has not
\* returned None.
C27_NextPageStatusAsFirstPage ==
    \A w \in Searching :
        (/\ pc[w] = "done"
         /\ req[w].endpoint = "next"
         /\ ~resp[w].exc
         /\ resp[w].status # 200)
        => result[w].kind = "SystemExit"

(***************************************************************************)
(* One insert per selected track.                                          *)
(***************************************************************************)
\* The insert_data calls of the run for this track.
AttemptsFor(track) ==
    {j \in DOMAIN attempts :
        /\ attempts[j].row.title = track.title
        /\ attempts[j].row.artist = track.artist
        /\ attempts[j].row.year = track.year}

\* C28: when a run has returned without an exception, insert_data has been
\* called exactly once for every track the run selected, whatever the
\* features endpoint answered.
C28_OneInsertPerSelectedTrack ==
    (ppc = "idle" /\ runs > 0 /\ crash = "")
    => \A t \in Selected : Cardinality(AttemptsFor(t)) = 1

(***************************************************************************)
(* The credentials file and the shared client.                             *)
(***************************************************************************)
\* The workers inside a _refesh_token call.
Refreshing == {w \in Workers : pc[w] \in InRefresh \cup {"rf_send"}}

\* C29: whenever no worker thread is inside a _refesh_token call, the access
\* token in the credentials file is the access_token of the shared client.
C29_FileAgreesWithClient ==
    Refreshing = {} => credentials_file.access_token = access_token

(***************************************************************************)
(* A second run over the same tracks table.                                *)
(***************************************************************************)
\* C30: when a run over all the tracks that lacked a features row has
\* returned without an exception, the run that follows it, the tracks table
\* being the same, selects no track.
C30_SecondRunSelectsNothing ==
    [][(/\ ppc = "idle" /\ runs > 0 /\ crash = ""
        /\ tracks # <<>>
        /\ Len(tracks_table) <= SELECT_LIMIT
        /\ ppc' = "map")
       => tracks' = <<>>]_vars

(***************************************************************************)
(* Termination of search_track.  The thread of the call keeps running, and *)
(* the catalog and the token endpoint answer every request or the request  *)
(* fails: some step of Next is taken as long as one is possible.           *)
(***************************************************************************)
SpecLive == Spec /\ WF_vars(Next)

\* The catalog gives a 429, 401 or 500 answer, or the request fails.
FailureOutcome ==
    \E w \in Workers :
        /\ pc[w] \in WaitPc
        /\ pc'[w] = RecvPc(pc[w])
        /\ resp'[w].exc \/ resp'[w].status \in {429, 401, 500}

\* C31: when the catalog gives only finitely many 429, 401, 500 and
\* network-failure outcomes (its result pages are finitely many), every
\* search_track call ends: it returns a track id, returns None or raises
\* SystemExit.
C31_SearchTerminates ==
    (<>[][~FailureOutcome]_vars)
    => \A w \in Workers :
          (op[w] = "search_track")
          => <>(pc[w] = "done" /\ result[w].kind \in {"id", "None", "SystemExit"})

(***************************************************************************)
(* Result pages without items.                                             *)
(***************************************************************************)
\* C32: when the page search_track holds, the first or a later one, has zero
\* items, the next step of the call is `return None`: no request is sent
\* for a further page, whether the page reports a next link or not.
C32_EmptyPageIsNotFound ==
    [][\A w \in Searching :
          (/\ pc[w] = "st_page"
           /\ song[w].kind = "page"
           /\ song[w].items = <<>>
           /\ pc'[w] # pc[w])
          => (/\ pc'[w] = "done"
              /\ result'[w].kind = "None"
              /\ req'[w] = req[w])]_vars

\* C32 witness: a call has returned None on a page without items that
\* reported a next link.
C32_Witness ==
    \E w \in Searching :
        /\ pc[w] = "done"
        /\ result[w].kind = "None"
        /\ song[w].kind = "page"
        /\ song[w].items = <<>>
        /\ song[w].next

(***************************************************************************)
(* Acceptance of a candidate.                                              *)
(***************************************************************************)
\* C33: a candidate is accepted exactly when one of the query's co-artists
\* is among its artists, names being compared without case and diacritics:
\* the candidate whose id a search returned shares an artist with the query
\* and no candidate before it does, and a search that returned None on a
\* page of well-formed candidates has met no candidate that shares one.
C33_AnySharedArtistAccepts ==
    \A w \in Searching :
        (/\ pc[w] = "done"
         /\ song[w].kind = "page"
         /\ NullCandidates(song[w]) = {}
         /\ result[w].kind \in {"id", "None"})
        => LET sharing == SharingFolded(song[w], song_details[w].artist)
           IN  IF result[w].kind = "id"
               THEN /\ result[w].id[2] \in sharing
                    /\ \A i \in 1..(result[w].id[2] - 1) : i \notin sharing
               ELSE sharing = {}

(***************************************************************************)
(* The order of the result pages.                                          *)
(***************************************************************************)
\* C34: search_track requests a next page only when every candidate of the
\* page it holds was examined without a match and the page reports a next
\* link, and it requests the page that link names; the pages it examines
\* follow each other in the server's order; a call that has returned sends
\* nothing more.
C34_NextPageOnlyAfterNoMatch ==
    [][\A w \in Searching :
          /\ (Sends(w) /\ req'[w].endpoint = "next")
             => (/\ song[w].kind = "page"
                 /\ Len(song[w].items) > 0
                 /\ NullCandidates(song[w]) = {}
                 /\ Intersecting(song[w], song_details[w].artist) = {}
                 /\ song[w].next
                 /\ req'[w].page = song[w].no + 1)
          /\ (song'[w] # song[w] /\ song'[w].kind = "page")
             => song'[w].no = (IF song[w].kind = "page" THEN song[w].no + 1 ELSE 1)
          /\ pc[w] = "done" => (req'[w] = req[w] /\ pc'[w] = "done")]_vars

\* C34 witness: a call has returned the id of a candidate of the second
\* page.
C34_Witness ==
    \E w \in Searching :
        /\ pc[w] = "done"
        /\ req[w].endpoint = "next"
        /\ result[w].kind = "id"
        /\ result[w].id[1] = 2

(***************************************************************************)
(* What _refesh_token leaves alone.                                        *)
(***************************************************************************)
\* C35: no step changes the client id, the client secret or the refresh
\* token, of the client or of the credentials file; and the access token of
\* the client and the credentials file change only in a _refesh_token call
\* whose token request was answered 200.
C35_RefreshLeavesTheRest ==
    [][/\ client' = client
       /\ credentials_file'.refresh_token = credentials_file.refresh_token
       /\ credentials_file'.sptfy_id = credentials_file.sptfy_id
       /\ credentials_file'.sptfy_secret = credentials_file.sptfy_secret
       /\ (access_token' # access_token \/ credentials_file' # credentials_file)
          => \E w \in Workers :
                /\ pc[w] \in {"rf_recv", "rf_write"}
                /\ token_request[w].status = 200]_vars

\* C35 witness: a _refesh_token call has returned after a rejected token
\* request, and an earlier one had stored a new access token.
C35_Witness ==
    \E w \in Workers :
        /\ token_request[w].status = 400
        /\ pc[w] \notin InRefresh \cup {"rf_send"}
        /\ credentials_file.access_token = 1
        /\ access_token = 1

(***************************************************************************)
(* The playlist flow of main.                                              *)
(***************************************************************************)
\* C36: main calls add_track only with a playlist id that create_playlist
\* returned from a 201 response, whatever status create_playlist received.
C36_AddTrackOnCreatedPlaylist ==
    [][\A w \in Workers :
          (op[w] = "create_playlist" /\ op'[w] = "add_track")
          => (Got(w, 201) /\ playlist_id'[w] = "playlist_id")]_vars

(***************************************************************************)
(* The construction of the client.                                         *)
(***************************************************************************)
\* C37: _get_user_id makes at most 5 profile requests and at most 5
\* _refesh_token calls; when it has ended, its requests having been answered
\* with whatever statuses, it has returned the user id of a 200 answer or
\* raised SystemExit.
C37_ConstructionIsBounded ==
    /\ rounds.requests <= num_retries
    /\ rounds.refreshes <= num_retries
    /\ \A w \in Workers :
          (op[w] = "_get_user_id" /\ pc[w] = "done" /\ ~resp[w].exc)
          => \/ result[w].kind = "user_id" /\ Got(w, 200)
             \/ result[w].kind = "SystemExit" /\ rounds.requests = num_retries

\* C37 witness: the construction has raised SystemExit after five profile
\* requests and five token refreshes.
C37_Witness ==
    \E w \in Workers :
        /\ op[w] = "_get_user_id"
        /\ pc[w] = "done"
        /\ result[w].kind = "SystemExit"
        /\ rounds.requests = num_retries
        /\ rounds.refreshes = num_retries

(***************************************************************************)
(* The title of the query.                                                 *)
(***************************************************************************)
\* C38: the title in the query is the title without the disallowed
\* punctuation, cut where a "feat." credit begins: a title without a
\* "feat." credit keeps all its other characters, in their order.
C38_TitleKeepsItsCharacters ==
    \A w \in Workers :
        (op[w] = "search_track" /\ pc[w] = "st_loop")
        => LET clean == Translate(song_details[w].title)
               credits == Find(clean, <<"f", "e", "a", "t", ".">>)
           IN  query_string[w] =
                  IF credits = {} THEN clean
                  ELSE SubSeq(clean, 1, Lowest(credits) - 1)

====
